---- MODULE Spec2Model ----
(***************************************************************************)
(* A model of the slogtrace exporter (src/slogtrace/exporter.go): the      *)
(* Exporter's lifecycle flag behind its RWMutex, ExportSpans (gate, record *)
(* building, stable sort, delivery loop), attributesToAttrs and Shutdown.  *)
(* Times are whole seconds; strings are TLC strings built with \o.         *)
(***************************************************************************)
EXTENDS Integers, Sequences, FiniteSets, TLC

\* ------------------------------------------------------------------ bounds

\* The largest number of records (spans plus events) of a timed batch.
MaxRecords == 3
\* Timestamps range over 0..MaxTime.
MaxTime == 1
\* Span durations (end - start) range over 0..MaxDur.
MaxDur == 1
\* The longest attribute list of a span or an event of a detailed batch.
MaxAttrs == 2
\* The longest attribute list handed to attributesToAttrs called alone.
MaxListLen == 2
\* The longest slice value of an attribute.
MaxElems == 2
\* At most MaxCalls calls of ExportSpans, and as many of Shutdown, are made.
MaxCalls == 2

Times == 0..MaxTime

\* --------------------------------------------------------- program values

\* codes.Code of a span's status (go.opentelemetry.io/otel/codes).
Unset == "Unset"
Error == "Error"
Ok == "Ok"
Codes == {Unset, Error, Ok}

LevelInfo == "INFO"
LevelError == "ERROR"

\* The error value nil, and the errors a slog handler may return.
Nil == "nil"
HandlerErrors == {"write failed", "handler closed"}
\* What ret and sret hold while a call has not returned.
Pending == "pending"

\* -------------------------------------------------------- text formatting

\* fmt's %v of a bool.
FormatBool(b) == IF b THEN "true" ELSE "false"

\* fmt's %v of an int64.
FormatInt(n) == IF n < 0 THEN "-" \o ToString(0 - n) ELSE ToString(n)

\* fmt's %v of a float64 given as sign, whole part and the decimal digits of
\* its fraction (shortest form, magnitude inside %v's plain-decimal range).
FormatFloat(f) ==
    (IF f.neg THEN "-" ELSE "") \o ToString(f.whole)
        \o (IF f.frac = "" THEN "" ELSE "." \o f.frac)

\* fmt's %+v of one slice element of the given element type.
FormatElem(type, v) ==
    CASE type = "BOOLSLICE" -> FormatBool(v)
      [] type = "INT64SLICE" -> FormatInt(v)
      [] type = "FLOAT64SLICE" -> FormatFloat(v)
      [] type = "STRINGSLICE" -> v

RECURSIVE JoinElemsTrailing(_, _, _)
\* The elements xs[i..] printed with one space after each.
JoinElemsTrailing(type, xs, i) ==
    IF i > Len(xs) THEN ""
    ELSE FormatElem(type, xs[i]) \o " " \o JoinElemsTrailing(type, xs, i + 1)

RECURSIVE JoinElems(_, _, _)
\* The elements xs[i..] printed with one space before each but the first.
JoinElems(type, xs, i) ==
    IF i > Len(xs) THEN ""
    ELSE (IF i > 1 THEN " " ELSE "") \o FormatElem(type, xs[i])
             \o JoinElems(type, xs, i + 1)

\* fmt.Sprintf("%+v", slice): the elements between brackets.
SprintfSlice(type, xs) == "[" \o JoinElems(type, xs, 1) \o "]"

\* time.Duration.String() of a whole number of seconds.
DurationString(d) ==
    LET a == IF d < 0 THEN 0 - d ELSE d
        h == a \div 3600
        m == (a % 3600) \div 60
        s == a % 60
    IN  (IF d < 0 THEN "-" ELSE "")
        \o (IF h > 0 THEN ToString(h) \o "h" ELSE "")
        \o (IF h > 0 \/ m > 0 THEN ToString(m) \o "m" ELSE "")
        \o ToString(s) \o "s"

\* ------------------------------------------------------ attribute converter

\* slog.Bool / slog.Int64 / slog.Float64 / slog.String.
SlogAttr(key, kind, value) == [Key |-> key, Kind |-> kind, Value |-> value]

\* The switch without its BOOL case.
ConvertAttrNoBool(attr) ==
    CASE attr.Type = "INT64" -> <<[Key |-> attr.Key, Kind |-> "Int64", Value |-> attr.Value]>>
      [] attr.Type = "FLOAT64" -> <<[Key |-> attr.Key, Kind |-> "Float64", Value |-> attr.Value]>>
      [] attr.Type = "STRING" -> <<[Key |-> attr.Key, Kind |-> "String", Value |-> attr.Value]>>
      [] attr.Type \in {"BOOLSLICE", "INT64SLICE", "FLOAT64SLICE", "STRINGSLICE"} ->
            <<[Key |-> attr.Key, Kind |-> "String",
               Value |-> SprintfSlice(attr.Type, attr.Value)]>>
      [] OTHER -> <<>>

\* One iteration of attributesToAttrs' loop: what the switch appends for attr.
ConvertAttr(attr) ==
    CASE attr.Type = "BOOL" -> <<SlogAttr(attr.Key, "Bool", attr.Value)>>
      [] attr.Type = "INT64" -> <<SlogAttr(attr.Key, "Int64", attr.Value)>>
      [] attr.Type = "FLOAT64" -> <<SlogAttr(attr.Key, "Float64", attr.Value)>>
      [] attr.Type = "STRING" -> <<SlogAttr(attr.Key, "String", attr.Value)>>
      [] attr.Type \in {"BOOLSLICE", "INT64SLICE", "FLOAT64SLICE", "STRINGSLICE"} ->
            <<SlogAttr(attr.Key, "String", SprintfSlice(attr.Type, attr.Value))>>
      [] OTHER -> <<>>

RECURSIVE attributesToAttrsFrom(_, _)
attributesToAttrsFrom(attributes, i) ==
    IF i > Len(attributes) THEN <<>>
    ELSE ConvertAttr(attributes[i]) \o attributesToAttrsFrom(attributes, i + 1)

attributesToAttrs(attributes) == attributesToAttrsFrom(attributes, 1)

\* ------------------------------------------------------------ record building

\* slog.NewRecord followed by AddAttrs.
NewRecord(time, level, msg, attrs) ==
    [Time |-> time, Level |-> level, Message |-> msg, Attrs |-> attrs]

\* A level derivation that takes every status but Ok for an error.
SpanLevelUnlessOk(span) == IF span.Status = Ok THEN LevelInfo ELSE LevelError

\* The level derived from a span's status code.
SpanLevel(span) == IF span.Status = Error THEN LevelError ELSE LevelInfo

\* The synthesized first attribute of a span record.
DurationAttr(span) ==
    SlogAttr("duration", "String", DurationString(span.EndTime - span.StartTime))

\* A span record with the duration appended after the span's attributes.
SpanRecordDurationLast(span) ==
    NewRecord(span.StartTime, SpanLevel(span), span.Name,
              attributesToAttrs(span.Attributes) \o <<DurationAttr(span)>>)

\* The record of a span.
SpanRecord(span) ==
    NewRecord(span.StartTime, SpanLevel(span), span.Name,
              <<DurationAttr(span)>> \o attributesToAttrs(span.Attributes))

\* An event record built the way the span's is, duration first.
EventRecordWithDuration(span, event) ==
    NewRecord(event.Time, SpanLevel(span), event.Name,
              <<DurationAttr(span)>> \o attributesToAttrs(event.Attributes))

\* The record of one event of a span, at the span's level.
EventRecord(span, event) ==
    NewRecord(event.Time, SpanLevel(span), event.Name,
              attributesToAttrs(event.Attributes))

\* An inner loop that appends nothing.
EventRecordsNone(span) == <<>>

\* The inner loop over span.Events().
EventRecords(span) ==
    [j \in 1..Len(span.Events) |-> EventRecord(span, span.Events[j])]

RECURSIVE BuildRecordsFrom(_, _)
\* The outer loop: each span's record, then its events' records.
BuildRecordsFrom(spans, i) ==
    IF i > Len(spans) THEN <<>>
    ELSE <<SpanRecord(spans[i])>> \o EventRecords(spans[i])
             \o BuildRecordsFrom(spans, i + 1)

BuildRecords(spans) == BuildRecordsFrom(spans, 1)

\* ---------------------------------------------------------------- the sort

\* time.Time.Before on whole seconds.
Before(t, u) == t < u

\* A comparator with its two results exchanged.
cmpDescending(a, b) ==
    IF a.Time = b.Time THEN 0
    ELSE IF Before(a.Time, b.Time) THEN 1
    ELSE -1

\* A comparator without the equality case: "not after" counts as before.
cmpNoEqual(a, b) ==
    IF Before(b.Time, a.Time) THEN 1 ELSE -1

\* The comparator handed to slices.SortStableFunc.
cmp(a, b) ==
    IF a.Time = b.Time THEN 0
    ELSE IF Before(a.Time, b.Time) THEN -1
    ELSE 1

RECURSIVE InsertLeft(_, _, _)
\* Insertion sort's inner loop: x moves left past s[j] while cmp(x, s[j]) < 0.
InsertLeft(s, x, j) ==
    IF j > 0 /\ cmp(x, s[j]) < 0 THEN InsertLeft(s, x, j - 1)
    ELSE SubSeq(s, 1, j) \o <<x>> \o SubSeq(s, j + 1, Len(s))

RECURSIVE InsertionSort(_, _)
\* Insertion sort's outer loop over data[i..].
InsertionSort(data, i) ==
    IF i > Len(data) THEN data
    ELSE InsertionSort(
             InsertLeft(SubSeq(data, 1, i - 1), data[i], i - 1)
                 \o SubSeq(data, i + 1, Len(data)),
             i + 1)

\* slices.SortStableFunc(records, cmp): for up to 20 elements the library
\* runs one insertion sort over the whole slice.
SortStableFunc(records) == InsertionSort(records, 2)

\* ------------------------------------------------------------------ inputs

\* attribute.KeyValue values spans and events carry: the kinds the tests use,
\* a caller attribute keyed "duration", and one of an unknown kind.
Attr(key, type, value) == [Key |-> key, Type |-> type, Value |-> value]

SampleAttrs ==
    { Attr("string", "STRING", "hello world"),
      Attr("string2", "STRING", "hello world 2"),
      Attr("duration", "INT64", 5),
      Attr("bools", "BOOLSLICE", <<TRUE, FALSE>>),
      Attr("unknown", "INVALID", "") }

RECURSIVE SeqsUpTo(_, _)
\* The sequences over S of length at most n.
SeqsUpTo(S, n) ==
    IF n = 0 THEN {<<>>}
    ELSE {<<>>} \cup {<<x>> \o rest : x \in S, rest \in SeqsUpTo(S, n - 1)}

AttrLists == SeqsUpTo(SampleAttrs, MaxAttrs)

Event(name, time, attrs) == [Name |-> name, Time |-> time, Attributes |-> attrs]

Span(name, start, end, status, attrs, events) ==
    [Name |-> name, StartTime |-> start, EndTime |-> end, Status |-> status,
     Attributes |-> attrs, Events |-> events]

\* Spans of k records (the span and k - 1 events) that vary start time,
\* status code and event times.
TimedSpans(k) ==
    { Span("", start, start, status, <<>>,
           [j \in 1..(k - 1) |-> Event("", times[j], <<>>)]) :
        start \in Times, status \in Codes, times \in [1..(k - 1) -> Times] }

RECURSIVE TimedBatchesUpTo(_)
\* Batches of at most n records in all, in any caller order.
TimedBatchesUpTo(n) ==
    {<<>>} \cup UNION { { <<s>> \o rest : s \in TimedSpans(k),
                                          rest \in TimedBatchesUpTo(n - k) } :
                        k \in 1..n }

\* One-span batches that vary the duration and the attributes of the span and
\* of its event.
DetailedBatches ==
    { <<Span("", 0, dur, Unset, attrs, events)>> :
        dur \in 0..MaxDur, attrs \in AttrLists,
        events \in {<<>>} \cup {<<Event("", 0, eattrs)>> : eattrs \in AttrLists} }

\* Span i is named "span<i>" and its event j "span<i>.event<j>".
NameSpans(batch) ==
    [i \in 1..Len(batch) |->
        [batch[i] EXCEPT
            !.Name = "span" \o ToString(i),
            !.Events = [j \in 1..Len(@) |->
                [@[j] EXCEPT !.Name = "span" \o ToString(i) \o ".event" \o ToString(j)]]]]

Batches == {NameSpans(b) : b \in TimedBatchesUpTo(MaxRecords) \cup DetailedBatches}


\* The batches of the calls that run concurrently: the empty batch, one span,
\* one span whose event precedes it, and two spans out of order.
SmallBatches ==
    { NameSpans(b) : b \in
        { <<>>,
          <<Span("", 1, 1, Unset, <<>>, <<>>)>>,
          <<Span("", 1, 1, Unset, <<>>, <<Event("", 0, <<>>)>>)>>,
          <<Span("", 1, 1, Unset, <<>>, <<>>), Span("", 0, 0, Error, <<>>, <<>>)>> } }

\* The attribute.Filter the tests mean the exporter to have: none, or "the
\* key is string". New does not take one.
NoFilter == "nil"
KeyIsString == "kv.Key == string"
Filters == {NoFilter, KeyIsString}

\* What a filter answers for an attribute.
FilterAllows(f, attr) == f = NoFilter \/ attr.Key = "string"

\* The goroutines calling ExportSpans, and the one calling Shutdown.
Callers == {"c1", "c2"}
Stoppers == {"s1"}

\* The contexts Shutdown may be given and ctx.Err() of each.
Contexts == {"active", "canceled", "expired"}
CtxErr(c) ==
    CASE c = "canceled" -> "context canceled"
      [] c = "expired" -> "context deadline exceeded"
      [] OTHER -> Nil

\* ------------------------------------------------------------------- state

VARIABLES
    stopped,        \* e.stopped
    readers,        \* the callers holding e.stoppedMu's read lock
    writer,         \* the stopper holding e.stoppedMu's write lock, or "none"
    pc,             \* each caller's position in ExportSpans
    spans,          \* each caller's argument
    stoppedL,       \* each caller's local copy of the flag
    records,        \* each caller's records slice
    idx,            \* each caller's position in the delivery loop
    ret,            \* what each caller's call returned, Pending until it does
    calls,          \* how many calls each caller has made
    afterShutdown,  \* whether the caller's call began after a Shutdown returned
    prior,          \* how many calls of each caller had returned when the call began
    handled,        \* every record handed to the slog handler, in order
    spc,            \* each stopper's position in Shutdown
    ctx,            \* each stopper's context
    sret,           \* what each stopper's call returned, Pending until it does
    scalls,         \* how many Shutdown calls each stopper has made
    shutdownReturned, \* whether some Shutdown call has returned
    convIn,         \* the attributes handed to attributesToAttrs called alone
    convOut,        \* what that call returned
    convPc          \* whether that call is to be made, made, or not asked for

vars == <<stopped, readers, writer, pc, spans, stoppedL, records, idx,
          ret, calls, afterShutdown, prior, handled, spc, ctx, sret, scalls,
          shutdownReturned, convIn, convOut, convPc>>

exportVars == <<pc, spans, stoppedL, records, idx, ret, calls, afterShutdown,
                prior>>
convVars == <<convIn, convOut, convPc>>
shutdownVars == <<spc, ctx, sret, scalls, shutdownReturned>>

\* New(): the zero Exporter. New takes no argument.
New ==
    /\ stopped = FALSE
    /\ readers = {}
    /\ writer = "none"

InitCallers ==
    /\ pc = [c \in Callers |-> "idle"]
    /\ spans = [c \in Callers |-> <<>>]
    /\ stoppedL = [c \in Callers |-> FALSE]
    /\ records = [c \in Callers |-> <<>>]
    /\ idx = [c \in Callers |-> 0]
    /\ ret = [c \in Callers |-> Pending]
    /\ calls = [c \in Callers |-> 0]
    /\ afterShutdown = [c \in Callers |-> FALSE]
    /\ prior = [c \in Callers |-> [d \in Callers |-> 0]]
    /\ handled = <<>>
    /\ spc = [s \in Stoppers |-> "idle"]
    /\ ctx = [s \in Stoppers |-> "active"]
    /\ sret = [s \in Stoppers |-> Pending]
    /\ scalls = [s \in Stoppers |-> 0]
    /\ shutdownReturned = FALSE

\* attributesToAttrs is not called on its own.
NoConversion ==
    /\ convIn = <<>>
    /\ convOut = <<>>
    /\ convPc = "idle"

Init == New /\ InitCallers /\ NoConversion

\* ------------------------------------------------------------- ExportSpans

\* The calls of caller d that have returned.
ReturnedCalls(d) == IF pc[d] = "idle" THEN calls[d] ELSE calls[d] - 1

\* The ExportSpans calls made so far.
TotalCalls == calls["c1"] + calls["c2"]

\* A caller invokes ExportSpans(ctx, batch) with one of the given batches; at
\* most limit calls are made in all.
ExportCall(c, batches, limit) ==
    /\ pc[c] = "idle"
    /\ TotalCalls < limit
    /\ \E batch \in batches : spans' = [spans EXCEPT ![c] = batch]
    /\ pc' = [pc EXCEPT ![c] = "rlock"]
    /\ calls' = [calls EXCEPT ![c] = @ + 1]
    /\ afterShutdown' = [afterShutdown EXCEPT ![c] = shutdownReturned]
    /\ prior' = [prior EXCEPT ![c] = [d \in Callers |-> ReturnedCalls(d)]]
    /\ stoppedL' = [stoppedL EXCEPT ![c] = FALSE]
    /\ records' = [records EXCEPT ![c] = <<>>]
    /\ idx' = [idx EXCEPT ![c] = 0]
    /\ ret' = [ret EXCEPT ![c] = Pending]
    /\ UNCHANGED <<convVars, stopped, readers, writer, handled, shutdownVars>>

\* e.stoppedMu.RLock(): granted while no writer holds the lock.
ExportRLock(c) ==
    /\ pc[c] = "rlock"
    /\ writer = "none"
    /\ readers' = readers \cup {c}
    /\ pc' = [pc EXCEPT ![c] = "read"]
    /\ UNCHANGED <<convVars, stopped, writer, spans, stoppedL, records, idx, ret,
                   calls, afterShutdown, prior, handled,
                   shutdownVars>>

\* A gate that takes the flag to be unset without reading it.
ExportReadStoppedStale(c) ==
    /\ pc[c] = "read"
    /\ stoppedL' = [stoppedL EXCEPT ![c] = FALSE]
    /\ pc' = [pc EXCEPT ![c] = "runlock"]
    /\ UNCHANGED <<convVars, stopped, readers, writer, spans, records, idx, ret,
                   calls, afterShutdown, prior, handled,
                   shutdownVars>>

\* stopped := e.stopped
ExportReadStopped(c) ==
    /\ pc[c] = "read"
    /\ stoppedL' = [stoppedL EXCEPT ![c] = stopped]
    /\ pc' = [pc EXCEPT ![c] = "runlock"]
    /\ UNCHANGED <<convVars, stopped, readers, writer, spans, records, idx, ret,
                   calls, afterShutdown, prior, handled,
                   shutdownVars>>

\* A gate that goes on without releasing the read lock.
ExportRUnlockKeepsLock(c) ==
    /\ pc[c] = "runlock"
    /\ pc' = [pc EXCEPT ![c] = "gate"]
    /\ UNCHANGED <<convVars, stopped, readers, writer, spans, stoppedL, records,
                   idx, ret, calls, afterShutdown, prior, handled,
                   shutdownVars>>

\* e.stoppedMu.RUnlock()
ExportRUnlock(c) ==
    /\ pc[c] = "runlock"
    /\ readers' = readers \ {c}
    /\ pc' = [pc EXCEPT ![c] = "gate"]
    /\ UNCHANGED <<convVars, stopped, writer, spans, stoppedL, records, idx, ret,
                   calls, afterShutdown, prior, handled,
                   shutdownVars>>

\* ExportSpans building into one records slice shared by all the calls.
ExportBuildShared(c) ==
    /\ pc[c] = "gate"
    /\ IF stoppedL[c] \/ Len(spans[c]) = 0
       THEN /\ ret' = [ret EXCEPT ![c] = Nil]
            /\ pc' = [pc EXCEPT ![c] = "idle"]
            /\ UNCHANGED records
       ELSE /\ records' = [d \in Callers |-> SortStableFunc(BuildRecords(spans[c]))]
            /\ pc' = [pc EXCEPT ![c] = "deliver"]
            /\ UNCHANGED ret
    /\ UNCHANGED <<convVars, stopped, readers, writer, spans, stoppedL, idx, calls,
                   afterShutdown, prior, handled,
                   shutdownVars>>

\* ExportSpans answering an empty batch with an error.
ExportBuildEmptyFails(c) ==
    /\ pc[c] = "gate"
    /\ IF stoppedL[c] \/ Len(spans[c]) = 0
       THEN /\ ret' = [ret EXCEPT ![c] = IF stoppedL[c] THEN Nil ELSE "write failed"]
            /\ pc' = [pc EXCEPT ![c] = "idle"]
            /\ UNCHANGED records
       ELSE /\ records' = [records EXCEPT ![c] = SortStableFunc(BuildRecords(spans[c]))]
            /\ pc' = [pc EXCEPT ![c] = "deliver"]
            /\ UNCHANGED ret
    /\ UNCHANGED <<convVars, stopped, readers, writer, spans, stoppedL, idx, calls,
                   afterShutdown, prior, handled,
                   shutdownVars>>

\* ExportSpans without the early return on the stopped flag.
ExportBuildNoGate(c) ==
    /\ pc[c] = "gate"
    /\ IF Len(spans[c]) = 0
       THEN /\ ret' = [ret EXCEPT ![c] = Nil]
            /\ pc' = [pc EXCEPT ![c] = "idle"]
            /\ UNCHANGED records
       ELSE /\ records' = [records EXCEPT ![c] = SortStableFunc(BuildRecords(spans[c]))]
            /\ pc' = [pc EXCEPT ![c] = "deliver"]
            /\ UNCHANGED ret
    /\ UNCHANGED <<convVars, stopped, readers, writer, spans, stoppedL, idx, calls,
                   afterShutdown, prior, handled,
                   shutdownVars>>

\* The two early returns, and otherwise the records built and sorted.
ExportBuild(c) ==
    /\ pc[c] = "gate"
    /\ IF stoppedL[c] \/ Len(spans[c]) = 0
       THEN /\ ret' = [ret EXCEPT ![c] = Nil]
            /\ pc' = [pc EXCEPT ![c] = "idle"]
            /\ UNCHANGED records
       ELSE /\ records' = [records EXCEPT ![c] = SortStableFunc(BuildRecords(spans[c]))]
            /\ pc' = [pc EXCEPT ![c] = "deliver"]
            /\ UNCHANGED ret
    /\ UNCHANGED <<convVars, stopped, readers, writer, spans, stoppedL, idx, calls,
                   afterShutdown, prior, handled,
                   shutdownVars>>

\* A delivery loop whose records join one output kept in time order across
\* calls: the record goes before the first one handed over with a later time.
ExportDeliverMerged(c, err) ==
    /\ pc[c] = "deliver"
    /\ idx[c] < Len(records[c])
    /\ LET e == [caller |-> c, call |-> calls[c],
                 record |-> records[c][idx[c] + 1], err |-> err]
           later == {k \in DOMAIN handled : handled[k].record.Time > e.record.Time}
           at == IF later = {} THEN Len(handled) + 1
                 ELSE CHOOSE k \in later : \A m \in later : k <= m
       IN  handled' = SubSeq(handled, 1, at - 1) \o <<e>>
                          \o SubSeq(handled, at, Len(handled))
    /\ idx' = [idx EXCEPT ![c] = @ + 1]
    /\ IF err # Nil \/ idx[c] + 1 = Len(records[c])
       THEN /\ ret' = [ret EXCEPT ![c] = err]
            /\ pc' = [pc EXCEPT ![c] = "idle"]
       ELSE UNCHANGED <<ret, pc>>
    /\ UNCHANGED <<convVars, stopped, readers, writer, spans, stoppedL, records,
                   calls, afterShutdown, prior, shutdownVars>>

\* A delivery loop that stops the exporter when the handler fails.
ExportDeliverStopsOnError(c, err) ==
    /\ pc[c] = "deliver"
    /\ idx[c] < Len(records[c])
    /\ handled' = Append(handled, [caller |-> c, call |-> calls[c],
                                   record |-> records[c][idx[c] + 1], err |-> err])
    /\ idx' = [idx EXCEPT ![c] = @ + 1]
    /\ stopped' = (stopped \/ err # Nil)
    /\ IF err # Nil \/ idx[c] + 1 = Len(records[c])
       THEN /\ ret' = [ret EXCEPT ![c] = err]
            /\ pc' = [pc EXCEPT ![c] = "idle"]
       ELSE UNCHANGED <<ret, pc>>
    /\ UNCHANGED <<convVars, readers, writer, spans, stoppedL, records,
                   calls, afterShutdown, prior, shutdownVars>>

\* A delivery loop that goes on after an error and returns the last answer.
ExportDeliverKeepGoing(c, err) ==
    /\ pc[c] = "deliver"
    /\ idx[c] < Len(records[c])
    /\ handled' = Append(handled, [caller |-> c, call |-> calls[c],
                                   record |-> records[c][idx[c] + 1], err |-> err])
    /\ idx' = [idx EXCEPT ![c] = @ + 1]
    /\ IF idx[c] + 1 = Len(records[c])
       THEN /\ ret' = [ret EXCEPT ![c] = err]
            /\ pc' = [pc EXCEPT ![c] = "idle"]
       ELSE UNCHANGED <<ret, pc>>
    /\ UNCHANGED <<convVars, stopped, readers, writer, spans, stoppedL, records,
                   calls, afterShutdown, prior, shutdownVars>>

\* One iteration of the delivery loop: the handler takes records[idx + 1] and
\* answers err; a non-nil err is returned at once, and so is nil after the
\* last record.
ExportDeliver(c, err) ==
    /\ pc[c] = "deliver"
    /\ idx[c] < Len(records[c])
    /\ handled' = Append(handled, [caller |-> c, call |-> calls[c],
                                   record |-> records[c][idx[c] + 1], err |-> err])
    /\ idx' = [idx EXCEPT ![c] = @ + 1]
    /\ IF err # Nil \/ idx[c] + 1 = Len(records[c])
       THEN /\ ret' = [ret EXCEPT ![c] = err]
            /\ pc' = [pc EXCEPT ![c] = "idle"]
       ELSE UNCHANGED <<ret, pc>>
    /\ UNCHANGED <<convVars, stopped, readers, writer, spans, stoppedL, records,
                   calls, afterShutdown, prior, shutdownVars>>

\* ---------------------------------------------------------------- Shutdown

\* A stopper invokes Shutdown(ctx).
ShutdownCall(s, c) ==
    /\ spc[s] = "idle"
    /\ scalls[s] < MaxCalls
    /\ spc' = [spc EXCEPT ![s] = "lock"]
    /\ ctx' = [ctx EXCEPT ![s] = c]
    /\ scalls' = [scalls EXCEPT ![s] = @ + 1]
    /\ sret' = [sret EXCEPT ![s] = Pending]
    /\ UNCHANGED <<convVars, stopped, readers, writer, exportVars, handled,
                   shutdownReturned>>

\* e.stoppedMu.Lock(): granted while no reader and no writer holds the lock.
ShutdownLock(s) ==
    /\ spc[s] = "lock"
    /\ readers = {}
    /\ writer = "none"
    /\ writer' = s
    /\ spc' = [spc EXCEPT ![s] = "set"]
    /\ UNCHANGED <<convVars, stopped, readers, exportVars, handled, ctx, sret,
                   scalls, shutdownReturned>>

\* A Shutdown that leaves the flag as it is.
ShutdownSetNothing(s) ==
    /\ spc[s] = "set"
    /\ spc' = [spc EXCEPT ![s] = "unlock"]
    /\ UNCHANGED <<convVars, stopped, readers, writer, exportVars, handled, ctx,
                   sret, scalls, shutdownReturned>>

\* A Shutdown that flips the flag.
ShutdownSetToggle(s) ==
    /\ spc[s] = "set"
    /\ stopped' = ~stopped
    /\ spc' = [spc EXCEPT ![s] = "unlock"]
    /\ UNCHANGED <<convVars, readers, writer, exportVars, handled, ctx, sret,
                   scalls, shutdownReturned>>

\* A Shutdown that sets the flag only when its context is not done.
ShutdownSetIfActive(s) ==
    /\ spc[s] = "set"
    /\ stopped' = (stopped \/ ctx[s] = "active")
    /\ spc' = [spc EXCEPT ![s] = "unlock"]
    /\ UNCHANGED <<convVars, readers, writer, exportVars, handled, ctx, sret,
                   scalls, shutdownReturned>>

\* e.stopped = true
ShutdownSet(s) ==
    /\ spc[s] = "set"
    /\ stopped' = TRUE
    /\ spc' = [spc EXCEPT ![s] = "unlock"]
    /\ UNCHANGED <<convVars, readers, writer, exportVars, handled, ctx, sret,
                   scalls, shutdownReturned>>

\* e.stoppedMu.Unlock()
ShutdownUnlock(s) ==
    /\ spc[s] = "unlock"
    /\ writer' = "none"
    /\ spc' = [spc EXCEPT ![s] = "select"]
    /\ UNCHANGED <<convVars, stopped, readers, exportVars, handled, ctx, sret,
                   scalls, shutdownReturned>>

\* The select on ctx.Done(): ctx.Err() if the context is done, else nil.
ShutdownReturn(s) ==
    /\ spc[s] = "select"
    /\ sret' = [sret EXCEPT ![s] = CtxErr(ctx[s])]
    /\ spc' = [spc EXCEPT ![s] = "idle"]
    /\ shutdownReturned' = TRUE
    /\ UNCHANGED <<convVars, stopped, readers, writer, exportVars, handled, ctx,
                   scalls>>

\* ------------------------------------------------------------ specifications

\* Callers and a stopper running concurrently, each call on a small batch.
Next ==
    \/ \E c \in Callers : ExportCall(c, SmallBatches, MaxCalls)
    \/ \E c \in Callers : ExportRLock(c)
    \/ \E c \in Callers : ExportReadStopped(c)
    \/ \E c \in Callers : ExportRUnlock(c)
    \/ \E c \in Callers : ExportBuild(c)
    \/ \E c \in Callers, err \in {Nil, "write failed"} : ExportDeliver(c, err)
    \/ \E s \in Stoppers, c \in Contexts : ShutdownCall(s, c)
    \/ \E s \in Stoppers : ShutdownLock(s)
    \/ \E s \in Stoppers : ShutdownSet(s)
    \/ \E s \in Stoppers : ShutdownUnlock(s)
    \/ \E s \in Stoppers : ShutdownReturn(s)

Spec == Init /\ [][Next]_vars

\* One caller and a stopper running concurrently.
NextLive ==
    \/ ExportCall("c1", SmallBatches, MaxCalls)
    \/ ExportRLock("c1")
    \/ ExportReadStopped("c1")
    \/ ExportRUnlock("c1")
    \/ ExportBuild("c1")
    \/ \E err \in {Nil, "write failed"} : ExportDeliver("c1", err)
    \/ \E s \in Stoppers, c \in Contexts : ShutdownCall(s, c)
    \/ \E s \in Stoppers : ShutdownLock(s)
    \/ \E s \in Stoppers : ShutdownSet(s)
    \/ \E s \in Stoppers : ShutdownUnlock(s)
    \/ \E s \in Stoppers : ShutdownReturn(s)

\* A goroutine that is not blocked goes on: the steps of the gate between
\* RLock and RUnlock and the steps of Shutdown are taken once they can be,
\* Lock being granted once the lock stays free.  Nothing is assumed of the
\* handler, which may keep a call in its delivery loop for ever, nor of the
\* callers starting calls.
Fairness ==
    /\ WF_vars(ExportReadStopped("c1"))
    /\ WF_vars(ExportRUnlock("c1"))
    /\ \A s \in Stoppers :
           /\ WF_vars(ShutdownLock(s))
           /\ WF_vars(ShutdownSet(s))
           /\ WF_vars(ShutdownUnlock(s))
           /\ WF_vars(ShutdownReturn(s))

SpecLive == Init /\ [][NextLive]_vars /\ Fairness

\* One call of one caller on an active exporter, over every batch.
NextBatch ==
    \/ ExportCall("c1", Batches, 1)
    \/ ExportRLock("c1")
    \/ ExportReadStopped("c1")
    \/ ExportRUnlock("c1")
    \/ ExportBuild("c1")
    \/ \E err \in {Nil} \cup HandlerErrors : ExportDeliver("c1", err)

SpecBatch == Init /\ [][NextBatch]_vars


\* ------------------------------------------------- attributesToAttrs alone

\* A float64 by its sign, whole part and fraction digits.
Float(neg, whole, frac) == [neg |-> neg, whole |-> whole, frac |-> frac]

\* Attributes of the four scalar kinds, one slice and one of an unknown kind.
ScalarSamples ==
    { Attr("bool", "BOOL", TRUE),
      Attr("bool", "BOOL", FALSE),
      Attr("int", "INT64", 42),
      Attr("int", "INT64", -7),
      Attr("float", "FLOAT64", Float(FALSE, 3, "14")),
      Attr("string", "STRING", "hello world"),
      Attr("string", "STRING", ""),
      Attr("bools", "BOOLSLICE", <<TRUE, FALSE>>),
      Attr("unknown", "INVALID", "") }

\* Slice attributes of every element kind, of up to MaxElems elements.
SliceSamples ==
    {Attr("bools", "BOOLSLICE", xs) : xs \in SeqsUpTo({TRUE, FALSE}, MaxElems)}
    \cup {Attr("ints", "INT64SLICE", xs) : xs \in SeqsUpTo({1, -13}, MaxElems)}
    \cup {Attr("floats", "FLOAT64SLICE", xs) :
              xs \in SeqsUpTo({Float(FALSE, 3, "14"), Float(FALSE, 2, "71828")}, MaxElems)}
    \cup {Attr("strings", "STRINGSLICE", xs) : xs \in SeqsUpTo({"hello", "world"}, MaxElems)}

\* The attributes of the span of TestAttributesAreCorrectlyFormatted.
TestAttributes ==
    << Attr("bool", "BOOL", TRUE),
       Attr("int", "INT64", 42),
       Attr("float", "FLOAT64", Float(FALSE, 3, "14")),
       Attr("string", "STRING", "hello world"),
       Attr("bools", "BOOLSLICE", <<TRUE, FALSE>>),
       Attr("ints", "INT64SLICE", <<1, 1, 2, 3, 5, 8, 13>>),
       Attr("floats", "FLOAT64SLICE", <<Float(FALSE, 3, "14"), Float(FALSE, 2, "71828")>>),
       Attr("strings", "STRINGSLICE", <<"hello", "world">>) >>

\* The attribute lists attributesToAttrs is called with.
ConvLists ==
    SeqsUpTo(ScalarSamples, MaxListLen) \cup {<<a>> : a \in SliceSamples}
        \cup {TestAttributes}

\* attributesToAttrs is about to be called with one of the lists.
InitConvert ==
    /\ New
    /\ InitCallers
    /\ convIn \in ConvLists
    /\ convOut = <<>>
    /\ convPc = "call"

\* attrs := attributesToAttrs(attributes)
ConvertCall ==
    /\ convPc = "call"
    /\ convOut' = attributesToAttrs(convIn)
    /\ convPc' = "done"
    /\ UNCHANGED <<convIn, stopped, readers, writer, exportVars, handled,
                   shutdownVars>>

NextConvert == ConvertCall

SpecConvert == InitConvert /\ [][NextConvert]_vars

\* ------------------------------------------------- what the claims speak of

\* The entries of handled that caller c's current (or last) call appended.
CurrentHandled(c) ==
    SelectSeq(handled, LAMBDA e : e.caller = c /\ e.call = calls[c])

\* Caller c's call has returned.
Returned(c) == pc[c] = "idle" /\ calls[c] > 0

\* The places of a batch a record comes from: <<i, 0>> is span i itself and
\* <<i, j>> its j-th event.
Origins(batch) ==
    {p \in (1..Len(batch)) \X (0..MaxRecords) : p[2] <= Len(batch[p[1]].Events)}

NameAt(batch, p) ==
    IF p[2] = 0 THEN batch[p[1]].Name ELSE batch[p[1]].Events[p[2]].Name

TimeAt(batch, p) ==
    IF p[2] = 0 THEN batch[p[1]].StartTime ELSE batch[p[1]].Events[p[2]].Time

AttributesAt(batch, p) ==
    IF p[2] = 0 THEN batch[p[1]].Attributes ELSE batch[p[1]].Events[p[2]].Attributes

\* The place of the batch whose name the record's message is (names are
\* unique within a batch).
Origin(batch, record) ==
    CHOOSE p \in Origins(batch) : NameAt(batch, p) = record.Message

\* Place p is visited before place q by the traversal: spans in input order,
\* each span before its events, events in the span's order.
VisitedBefore(p, q) == p[1] < q[1] \/ (p[1] = q[1] /\ p[2] < q[2])

\* The keys of a sequence of attributes or of rendered pairs.
KeysOf(attrs) == {attrs[k].Key : k \in DOMAIN attrs}

\* ------------------------------------------------------------------ claims

\* C1: within one ExportSpans call the records handed to the handler are in
\* non-decreasing timestamp order, whatever the order of the batch.
C1_DeliveredInTimeOrder ==
    \A c \in Callers :
        LET h == CurrentHandled(c)
        IN  \A i, j \in DOMAIN h : i < j => h[i].record.Time <= h[j].record.Time

\* A call has delivered three records of a batch whose traversal order was not
\* in time order.
C1_Witness ==
    \E c \in Callers :
        /\ Returned(c)
        /\ Len(CurrentHandled(c)) = 3
        /\ \E p, q \in Origins(spans[c]) :
               VisitedBefore(p, q) /\ TimeAt(spans[c], p) > TimeAt(spans[c], q)

\* C2: within one call, two records of equal timestamp are delivered in their
\* traversal order.
C2_TiesKeepTraversalOrder ==
    \A c \in Callers :
        LET h == CurrentHandled(c)
        IN  \A i, j \in DOMAIN h :
                (i < j /\ h[i].record.Time = h[j].record.Time)
                    => VisitedBefore(Origin(spans[c], h[i].record),
                                     Origin(spans[c], h[j].record))

\* A call has delivered three records, two of them of equal timestamp, that
\* the sort had to reorder.
C2_Witness ==
    \E c \in Callers :
        LET h == CurrentHandled(c)
        IN  /\ Returned(c)
            /\ Len(h) = 3
            /\ \E i, j \in DOMAIN h : i < j /\ h[i].record.Time = h[j].record.Time
            /\ \E i, j \in DOMAIN h :
                   i < j /\ VisitedBefore(Origin(spans[c], h[j].record),
                                          Origin(spans[c], h[i].record))


\* C3: a call of ExportSpans that starts after a Shutdown call has returned
\* hands no record to the handler and returns nil.
C3_NoDeliveryAfterShutdown ==
    \A c \in Callers :
        afterShutdown[c] =>
            /\ CurrentHandled(c) = <<>>
            /\ ret[c] \in {Pending, Nil}
            /\ Returned(c) => ret[c] = Nil

\* A call with a batch of two records began after Shutdown returned and has
\* returned, while an earlier call did deliver.
C3_Witness ==
    \E c \in Callers :
        /\ afterShutdown[c]
        /\ Returned(c)
        /\ Len(spans[c]) = 2
        /\ handled # <<>>

\* C4 as stated: once the flag is set nothing more is handed to the handler,
\* not even by a call that was in flight when it was set.
C4_NothingHandledOnceStopped == [][stopped => handled' = handled]_vars

\* C4 as amended: a call that reads the flag after it was set hands no record
\* to the handler and returns nil (a call that read it before may go on).
C4_NoDeliveryOnceSeenStopped ==
    \A c \in Callers :
        stoppedL[c] =>
            /\ stopped
            /\ CurrentHandled(c) = <<>>
            /\ pc[c] \in {"runlock", "gate", "idle"}
            /\ Returned(c) => ret[c] = Nil

\* A call that began before any Shutdown had returned read the flag as set
\* and returned without delivering its batch.
C4_Witness ==
    \E c \in Callers :
        /\ stoppedL[c]
        /\ ~afterShutdown[c]
        /\ Returned(c)
        /\ spans[c] # <<>>

\* C5: when the handler fails on the N-th record of the sorted sequence, the
\* call returns that error, the handler has been given exactly the first N
\* sorted records, all but the last taken without error, and nothing after.
C5_FailureStopsDelivery ==
    \A c \in Callers :
        LET h == CurrentHandled(c)
            n == Len(h)
        IN  /\ \A i \in DOMAIN h : i < n => h[i].err = Nil
            /\ (Returned(c) /\ ret[c] # Nil) =>
                   /\ n >= 1
                   /\ n <= Len(records[c])
                   /\ h[n].err = ret[c]
                   /\ ret[c] \in HandlerErrors
                   /\ \A i \in 1..n : h[i].record = records[c][i]
                   /\ \A i \in 1..(n - 1) : h[i].record.Time <= h[i + 1].record.Time

\* The handler failed on the second of three records with "handler closed".
C5_Witness ==
    \E c \in Callers :
        /\ Returned(c)
        /\ ret[c] = "handler closed"
        /\ Len(CurrentHandled(c)) = 2
        /\ Len(records[c]) = 3

\* C6: a call on an active exporter whose handler never fails hands over
\* exactly one record per span and one per event of the batch.
C6_EachRecordOnce ==
    \A c \in Callers :
        (Returned(c) /\ ret[c] = Nil /\ ~stoppedL[c]) =>
            LET h == CurrentHandled(c)
            IN  /\ Len(h) = Cardinality(Origins(spans[c]))
                /\ \A p \in Origins(spans[c]) :
                       Cardinality({i \in DOMAIN h :
                           /\ h[i].record.Message = NameAt(spans[c], p)
                           /\ h[i].record.Time = TimeAt(spans[c], p)}) = 1

\* A call delivered a span and its two events, not in traversal order.
C6_Witness ==
    \E c \in Callers :
        LET h == CurrentHandled(c)
        IN  /\ Returned(c)
            /\ ret[c] = Nil
            /\ Len(h) = 3
            /\ Len(spans[c]) = 1
            /\ h[1].record.Message # spans[c][1].Name

\* C7: every record derived from a span whose status code is Error, the
\* span's and its events', has level ERROR, and every other record level INFO.
C7_LevelFollowsStatus ==
    \A i \in DOMAIN handled :
        LET c == handled[i].caller
            r == handled[i].record
            p == Origin(spans[c], r)
        IN  handled[i].call = calls[c] =>
                r.Level = IF spans[c][p[1]].Status = "Error" THEN "ERROR" ELSE "INFO"

\* One call delivered an ERROR record of an event and, after it in the batch,
\* an INFO record of a span with status Ok.
C7_Witness ==
    \E c \in Callers :
        LET h == CurrentHandled(c)
        IN  /\ Len(spans[c]) = 2
            /\ spans[c][1].Status = "Error"
            /\ \E i \in DOMAIN h :
                   h[i].record.Level = "ERROR" /\ Origin(spans[c], h[i].record)[2] > 0
            /\ \E i \in DOMAIN h :
                   h[i].record.Level = "INFO" /\ spans[c][2].Status = "Ok"

\* C8: a Shutdown call that has returned has set the flag, whatever its
\* context, and has returned the context's error when the context was done
\* and nil when it was not.
C8_ShutdownSetsFlag ==
    \A s \in Stoppers :
        (spc[s] = "idle" /\ scalls[s] > 0) =>
            /\ stopped
            /\ ctx[s] = "active" => sret[s] = "nil"
            /\ ctx[s] = "canceled" => sret[s] = "context canceled"
            /\ ctx[s] = "expired" => sret[s] = "context deadline exceeded"

\* The first Shutdown call, given an expired context, returned its error, and
\* a later ExportSpans call was a no-op.
C8_Witness ==
    \E s \in Stoppers :
        /\ spc[s] = "idle"
        /\ scalls[s] = 1
        /\ sret[s] = "context deadline exceeded"
        /\ \E c \in Callers : afterShutdown[c] /\ Returned(c) /\ spans[c] # <<>>

\* C9: for each filter the tests mean the exporter to have, an attribute the
\* filter rejects is rendered in no record, and one it accepts (with no
\* filter, every one) is.
C9_FilterDecidesAttributes ==
    \A f \in Filters :
        \A i \in DOMAIN handled :
            LET c == handled[i].caller
                r == handled[i].record
                attrs == AttributesAt(spans[c], Origin(spans[c], r))
            IN  handled[i].call = calls[c] =>
                    \A k \in DOMAIN attrs :
                        ConvertAttr(attrs[k]) # <<>> =>
                            (FilterAllows(f, attrs[k])
                                <=> \E m \in DOMAIN r.Attrs :
                                        r.Attrs[m] = ConvertAttr(attrs[k])[1])

\* C10 as stated: no record of an event carries an attribute keyed duration.
C10_NoEventDuration ==
    \A i \in DOMAIN handled :
        LET c == handled[i].caller
            r == handled[i].record
        IN  (handled[i].call = calls[c] /\ Origin(spans[c], r)[2] > 0) =>
                "duration" \notin KeysOf(r.Attrs)

\* C10 as amended: no duration attribute is synthesized for the record of an
\* event: every key of the record is a key of one of the event's own
\* attributes, so duration appears only if the event itself carries it.
C10_NoSynthesizedEventDuration ==
    \A i \in DOMAIN handled :
        LET c == handled[i].caller
            r == handled[i].record
            p == Origin(spans[c], r)
        IN  (handled[i].call = calls[c] /\ p[2] > 0) =>
                KeysOf(r.Attrs) \subseteq KeysOf(AttributesAt(spans[c], p))

\* The record of an event with an attribute of its own, none keyed duration,
\* was delivered next to its span's record, which does carry duration.
C10_Witness ==
    \E i, j \in DOMAIN handled :
        LET c == handled[i].caller
            r == handled[i].record
        IN  /\ Origin(spans[c], r)[2] > 0
            /\ r.Attrs # <<>>
            /\ "duration" \notin KeysOf(r.Attrs)
            /\ "duration" \in KeysOf(handled[j].record.Attrs)


\* C11: the attributes of every span record begin with duration, the string
\* form of end time minus start time, followed by one pair per attribute of
\* the span that has a known kind, in the span's order, equal keys kept.
C11_DurationThenSpanAttributes ==
    \A i \in DOMAIN handled :
        LET c == handled[i].caller
            r == handled[i].record
            p == Origin(spans[c], r)
            span == spans[c][p[1]]
            own == SelectSeq(span.Attributes, LAMBDA a : a.Type # "INVALID")
        IN  (handled[i].call = calls[c] /\ p[2] = 0) =>
                /\ Len(r.Attrs) = 1 + Len(own)
                /\ r.Attrs[1] = [Key |-> "duration", Kind |-> "String",
                                 Value |-> ToString(span.EndTime - span.StartTime) \o "s"]
                /\ \A k \in DOMAIN own : r.Attrs[k + 1].Key = own[k].Key

\* The record of a span that lasted one second and carries an attribute keyed
\* duration twice was delivered with the synthesized duration and both.
C11_Witness ==
    \E i \in DOMAIN handled :
        LET r == handled[i].record
        IN  /\ Len(r.Attrs) = 3
            /\ r.Attrs[1].Value = "1s"
            /\ r.Attrs[2].Key = "duration"
            /\ r.Attrs[3] = r.Attrs[2]


\* C12: a call of ExportSpans with no spans hands nothing to the handler and
\* returns nil, whether the exporter is active or stopped.
C12_EmptyBatchIsNoOp ==
    \A c \in Callers :
        (calls[c] > 0 /\ Len(spans[c]) = 0) =>
            /\ CurrentHandled(c) = <<>>
            /\ pc[c] # "deliver"
            /\ ret[c] \in {Pending, Nil}
            /\ Returned(c) => ret[c] = Nil

\* Two calls with no spans have returned, one that read the flag unset and
\* one that read it set.
C12_Witness ==
    \E c, d \in Callers :
        /\ Returned(c) /\ Len(spans[c]) = 0 /\ ~stoppedL[c]
        /\ Returned(d) /\ Len(spans[d]) = 0 /\ stoppedL[d]


\* C13: when a call of ExportSpans begins after another has returned, every
\* record of the earlier call reaches the handler before every record of the
\* later one, whatever their timestamps.
C13_BatchesInOrderReceived ==
    \A i, j \in DOMAIN handled :
        LET c == handled[j].caller
        IN  (/\ handled[j].call = calls[c]
             /\ handled[i].call <= prior[c][handled[i].caller]) => i < j

\* A call of one caller returned before a call of the other began, and a
\* record of the first has a later timestamp than a record of the second.
C13_Witness ==
    \E i, j \in DOMAIN handled :
        LET c == handled[j].caller
        IN  /\ handled[i].caller # c
            /\ handled[j].call = calls[c]
            /\ handled[i].call <= prior[c][handled[i].caller]
            /\ handled[i].record.Time > handled[j].record.Time


\* The known kinds of attribute values and the slog kind of each scalar one.
KnownTypes ==
    {"BOOL", "INT64", "FLOAT64", "STRING",
     "BOOLSLICE", "INT64SLICE", "FLOAT64SLICE", "STRINGSLICE"}

ScalarKind(type) ==
    CASE type = "BOOL" -> "Bool"
      [] type = "INT64" -> "Int64"
      [] type = "FLOAT64" -> "Float64"
      [] type = "STRING" -> "String"

\* C14: the converter renders one pair per attribute of a known kind, in
\* input order and under the attribute's key, a scalar with its own kind and
\* value, and renders nothing for an attribute of an unknown kind.
C14_ScalarsKeptUnknownSkipped ==
    convPc = "done" =>
        LET known == SelectSeq(convIn, LAMBDA a : a.Type \in KnownTypes)
        IN  /\ Len(convOut) = Len(known)
            /\ \A k \in DOMAIN known :
                   /\ convOut[k].Key = known[k].Key
                   /\ known[k].Type \in {"BOOL", "INT64", "FLOAT64", "STRING"} =>
                          /\ convOut[k].Kind = ScalarKind(known[k].Type)
                          /\ convOut[k].Value = known[k].Value

\* A list of an unknown-kind attribute followed by a bool was converted to
\* the bool's pair alone.
C14_Witness ==
    /\ convPc = "done"
    /\ Len(convIn) = 2
    /\ convIn[1].Type = "INVALID"
    /\ convOut = <<[Key |-> "bool", Kind |-> "Bool", Value |-> FALSE]>>

RECURSIVE SpacedText(_, _)
\* The texts of the elements, each as fmt prints it, with one space between
\* neighbours.
SpacedText(type, xs) ==
    IF Len(xs) = 0 THEN ""
    ELSE IF Len(xs) = 1 THEN FormatElem(type, xs[1])
    ELSE SpacedText(type, SubSeq(xs, 1, Len(xs) - 1)) \o " " \o FormatElem(type, xs[Len(xs)])

\* C15: a slice attribute is rendered as one String pair under its key whose
\* value is the elements in order between brackets, one space between
\* neighbours and none after the last; an empty slice gives [].
C15_SlicesAsBracketedText ==
    convPc = "done" =>
        LET known == SelectSeq(convIn, LAMBDA a : a.Type \in KnownTypes)
        IN  \A k \in DOMAIN known :
                known[k].Type \in {"BOOLSLICE", "INT64SLICE", "FLOAT64SLICE", "STRINGSLICE"} =>
                    /\ k \in DOMAIN convOut
                    /\ convOut[k] = [Key |-> known[k].Key, Kind |-> "String",
                                     Value |-> "[" \o SpacedText(known[k].Type, known[k].Value) \o "]"]

\* The four slices of the tests' span were rendered as the tests expect.
C15_Witness ==
    /\ convPc = "done"
    /\ convIn = TestAttributes
    /\ Len(convOut) = 8
    /\ convOut[5] = [Key |-> "bools", Kind |-> "String", Value |-> "[true false]"]
    /\ convOut[6] = [Key |-> "ints", Kind |-> "String", Value |-> "[1 1 2 3 5 8 13]"]
    /\ convOut[7] = [Key |-> "floats", Kind |-> "String", Value |-> "[3.14 2.71828]"]
    /\ convOut[8] = [Key |-> "strings", Kind |-> "String", Value |-> "[hello world]"]

\* C16: no step of ExportSpans or Shutdown unsets the stopped flag once it
\* is set, and a second or later Shutdown leaves the exporter as the first
\* did: stopped, with the lock released.
C16_StoppedIsOneWay ==
    [][ /\ stopped => stopped'
        /\ \A s \in Stoppers :
               (scalls'[s] >= 2 /\ spc'[s] = "idle") => (stopped' /\ writer' = "none")
      ]_vars

\* A second Shutdown has returned on the exporter the first one stopped.
C16_Witness ==
    \E s \in Stoppers :
        /\ scalls[s] = 2
        /\ spc[s] = "idle"
        /\ shutdownReturned
        /\ stopped
        /\ writer = "none"

\* The call of c has read the flag as unset and has not returned.
InFlight(c) == pc[c] \in {"runlock", "gate", "deliver"} /\ ~stoppedL[c]

\* The flag is set and no call that read it as unset is still running.
Quiet == stopped /\ \A c \in Callers : ~InFlight(c)

\* C17: a record handed to the handler while the flag is set comes from a
\* call that read the flag before it was set and has not returned; once the
\* flag is set and no such call is left, none ever appears again and no
\* record is handed to the handler any more.
C17_EventualQuiescence ==
    [][ /\ (stopped /\ handled' # handled) =>
               /\ Len(handled') = Len(handled) + 1
               /\ InFlight(handled'[Len(handled')].caller)
               /\ handled'[Len(handled')].call = calls[handled'[Len(handled')].caller]
        /\ Quiet => (Quiet' /\ handled' = handled)
      ]_vars

\* The last record was handed over by a call that was still running when
\* another call began after Shutdown had returned; the exporter is now quiet.
C17_Witness ==
    /\ Quiet
    /\ handled # <<>>
    /\ \E d \in Callers :
           LET c == handled[Len(handled)].caller
           IN  /\ d # c
               /\ calls[d] > 0
               /\ afterShutdown[d]
               /\ handled[Len(handled)].call = calls[c]
               /\ prior[d][c] < calls[c]
               /\ Returned(c)


\* C18: a caller holds the read lock only between RLock and RUnlock of the
\* gate, never while it builds or delivers, and a Shutdown that has been
\* called returns, whatever the callers and the handler do.
C18_ShutdownTerminates ==
    /\ [](\A c \in Callers : c \in readers => pc[c] \in {"read", "runlock"})
    /\ \A s \in Stoppers : (spc[s] = "lock") ~> (spc[s] = "idle")

\* Shutdown has set the flag and returned while a call that read the flag as
\* unset is in the middle of its delivery loop.
C18_Witness ==
    /\ shutdownReturned
    /\ stopped
    /\ \A s \in Stoppers : spc[s] = "idle"
    /\ pc["c1"] = "deliver"
    /\ ~stoppedL["c1"]
    /\ CurrentHandled("c1") # <<>>


\* The places of batch the entry's record has the name and the time of.
PlacesOf(batch, e) ==
    {p \in Origins(batch) : /\ NameAt(batch, p) = e.record.Message
                            /\ TimeAt(batch, p) = e.record.Time}

\* C19: whatever other calls do meanwhile, the records a call has handed to
\* the handler all come from its own batch, each place of the batch at most
\* once, in time order with ties in traversal order, and a call that
\* delivered without error has handed over every record of its batch.
C19_OverlappingCallsKeepOwnOrder ==
    \A c \in Callers :
        LET h == CurrentHandled(c)
        IN  /\ \A i \in DOMAIN h : PlacesOf(spans[c], h[i]) # {}
            /\ \A i, j \in DOMAIN h :
                   i < j => \A p \in PlacesOf(spans[c], h[i]), q \in PlacesOf(spans[c], h[j]) :
                                \/ TimeAt(spans[c], p) < TimeAt(spans[c], q)
                                \/ /\ TimeAt(spans[c], p) = TimeAt(spans[c], q)
                                   /\ VisitedBefore(p, q)
            /\ (Returned(c) /\ ret[c] = Nil /\ ~stoppedL[c]) =>
                   Len(h) = Cardinality(Origins(spans[c]))

\* The two records of one call were handed over with a record of another,
\* overlapping call between them.
C19_Witness ==
    \E i, j, k \in DOMAIN handled :
        /\ i < j /\ j < k
        /\ handled[i].caller = handled[k].caller
        /\ handled[i].call = handled[k].call
        /\ handled[j].caller # handled[i].caller
        /\ handled[i].record.Time < handled[k].record.Time
        /\ handled[i].call = calls[handled[i].caller]
        /\ handled[j].call = calls[handled[j].caller]


\* An earlier call of caller c was answered an error by the handler.
FailedBefore(c) ==
    \E i \in DOMAIN handled :
        /\ handled[i].caller = c
        /\ handled[i].call < calls[c]
        /\ handled[i].err # Nil

\* C20: the stopped flag changes only in Shutdown's assignment, so no step
\* of ExportSpans, whatever its outcome, changes it; and a call that follows
\* a failed one on the still active exporter starts from scratch: it hands
\* over records of its own batch only, one per iteration done, and all of
\* them when it returns nil.
C20_ExportLeavesFlagAlone ==
    /\ [][ stopped' # stopped =>
               /\ \E s \in Stoppers : spc[s] = "set" /\ spc'[s] = "unlock"
               /\ pc' = pc /\ idx' = idx /\ ret' = ret /\ handled' = handled
         ]_vars
    /\ [](\A c \in Callers :
              (FailedBefore(c) /\ ~stoppedL[c] /\ pc[c] \in {"deliver", "idle"}) =>
                  LET h == CurrentHandled(c)
                  IN  /\ Len(h) = idx[c]
                      /\ \A i \in DOMAIN h : PlacesOf(spans[c], h[i]) # {}
                      /\ (pc[c] = "idle" /\ ret[c] = Nil) =>
                             Len(h) = Cardinality(Origins(spans[c])))

\* After a call that the handler failed, the exporter is still active and the
\* same caller's next call has delivered its two records and returned nil.
C20_Witness ==
    /\ ~stopped
    /\ \E c \in Callers :
           /\ FailedBefore(c)
           /\ Returned(c)
           /\ ret[c] = Nil
           /\ Len(CurrentHandled(c)) = 2


====
